---- MODULE Spec2Model ----
(***************************************************************************)
(* A model of flight_parser.py: the field validators, validate_row, the    *)
(* batch parser (parse_csv_file / parse_csv_folder / parse_single_csv)     *)
(* writing errors.txt, flight_matches_query and run_queries_on_db.         *)
(*                                                                         *)
(* A Python str is a sequence of characters, each a one-character string,  *)
(* so that strip, lower, startswith, the csv splitter, strptime and float  *)
(* are computed on the text as the code computes them.  The ideograph      *)
(* U+4E2D (a letter without case) is written "U+4E2D" and stands for one   *)
(* character.  None is the empty sequence <<>> and a present value x is    *)
(* <<x>>.                                                                  *)
(***************************************************************************)
EXTENDS Integers, Sequences, FiniteSets, TLC

VARIABLES
    pc,              \* position of the running operation
    arg_fields,      \* validate_row: argument fields
    arg_line_no,     \* validate_row: argument line_no
    arg_line,        \* validate_row: argument original_line
    row_result,      \* validate_row: the returned triple, <<>> before the call
    fs,              \* the folder: file name -> list of lines (readlines, "\n" removed)
    errors_txt,      \* ERRORS_TXT: <<>> when the file does not exist, else <<its lines>>
    target,          \* what main was asked to parse: [kind, path]
    csv_files,       \* parse_csv_folder: the sorted list of paths still to read and read
    file_i,          \* index in csv_files of the file being parsed
    line_i,          \* enumerate(reader, start=1): lines of the file consumed so far
    header_skipped,  \* parse_csv_file: header_skipped
    valid_flights,   \* parse_csv_file: valid_flights of the file being parsed
    all_flights,     \* parse_csv_folder: all_flights
    m_flight,        \* flight_matches_query: argument flight
    m_query,         \* flight_matches_query: argument query
    m_result,        \* flight_matches_query: "none" before the call, then the outcome
    flights,         \* run_queries_on_db: argument flights
    queries,         \* run_queries_on_db: argument queries
    responses        \* run_queries_on_db: responses

vars == <<pc, arg_fields, arg_line_no, arg_line, row_result, fs, errors_txt, target,
          csv_files, file_i, line_i, header_skipped, valid_flights, all_flights,
          m_flight, m_query, m_result, flights, queries, responses>>

row_vars   == <<arg_fields, arg_line_no, arg_line, row_result>>
parse_vars == <<fs, errors_txt, target, csv_files, file_i, line_i, header_skipped,
                valid_flights, all_flights>>
match_vars == <<m_flight, m_query, m_result>>
query_vars == <<flights, queries, responses>>

----------------------------------------------------------------------------
(* Characters and the str methods the code uses *)

UpperSeq == <<"A","B","C","D","E","F","G","H","I","J","K","L","M","N","O","P","Q","R","S","T","U","V","W","X","Y","Z">>
LowerSeq == <<"a","b","c","d","e","f","g","h","i","j","k","l","m","n","o","p","q","r","s","t","u","v","w","x","y","z">>
DigitSeq == <<"0","1","2","3","4","5","6","7","8","9">>

Range(s) == {s[i] : i \in DOMAIN s}

UpperChars      == Range(UpperSeq)
LowerChars      == Range(LowerSeq)
DigitChars      == Range(DigitSeq)
UncasedLetters  == {"U+4E2D"}
LetterChars     == UpperChars \cup LowerChars \cup UncasedLetters
WhitespaceChars == {" ", "\t"}

\* The code points' order, as far as the characters of the model go.
CodePointOrder ==
    <<"\t", " ", "\"", "#", "+", ",", "-", ".", "/">> \o DigitSeq \o <<":">>
    \o UpperSeq \o <<"_">> \o LowerSeq \o <<"U+4E2D">>

Ord(c) == CHOOSE i \in DOMAIN CodePointOrder : CodePointOrder[i] = c

IndexIn(seq, c) == CHOOSE i \in DOMAIN seq : seq[i] = c

DigitVal(c) == IndexIn(DigitSeq, c) - 1

Some(x) == <<x>>
None == <<>>

SetMin(S) == CHOOSE x \in S : \A y \in S : x <= y
SetMax(S) == CHOOSE x \in S : \A y \in S : y <= x

\* str.strip()
Strip(s) ==
    LET keep == {i \in DOMAIN s : s[i] \notin WhitespaceChars}
    IN  IF keep = {} THEN <<>> ELSE SubSeq(s, SetMin(keep), SetMax(keep))

\* str.lower()
LowerChar(c) == IF c \in UpperChars THEN LowerSeq[IndexIn(UpperSeq, c)] ELSE c
Lower(s) == [i \in DOMAIN s |-> LowerChar(s[i])]

\* str.startswith / str.endswith
StartsWith(s, p) == Len(s) >= Len(p) /\ SubSeq(s, 1, Len(p)) = p
EndsWith(s, p)   == Len(s) >= Len(p) /\ SubSeq(s, Len(s) - Len(p) + 1, Len(s)) = p

\* str.isalnum, str.isalpha: not empty, every character of the class
IsAlnum(s) == Len(s) > 0 /\ \A i \in DOMAIN s : s[i] \in LetterChars \cup DigitChars
IsAlpha(s) == Len(s) > 0 /\ \A i \in DOMAIN s : s[i] \in LetterChars

\* str.isupper: no lowercase character and at least one uppercase one
\* (characters without case do not count either way)
IsUpper(s) ==
    /\ \A i \in DOMAIN s : s[i] \notin LowerChars
    /\ \E i \in DOMAIN s : s[i] \in UpperChars

\* str order (list.sort on str): lexicographic by code point
RECURSIVE StrLess(_, _)
StrLess(a, b) ==
    IF b = <<>> THEN FALSE
    ELSE IF a = <<>> THEN TRUE
    ELSE IF a[1] # b[1] THEN Ord(a[1]) < Ord(b[1])
    ELSE StrLess(Tail(a), Tail(b))

\* the decimal value of a run of digits
RECURSIVE DigitsVal(_)
DigitsVal(s) ==
    IF s = <<>> THEN 0 ELSE 10 * DigitsVal(SubSeq(s, 1, Len(s) - 1)) + DigitVal(s[Len(s)])

AllDigits(s) == \A i \in DOMAIN s : s[i] \in DigitChars

RECURSIVE Pow10(_)
Pow10(n) == IF n <= 0 THEN 1 ELSE 10 * Pow10(n - 1)

\* str(n) for an int n >= 0
RECURSIVE IntStr(_)
IntStr(n) ==
    IF n < 10 THEN <<DigitSeq[n + 1]>> ELSE IntStr(n \div 10) \o <<DigitSeq[(n % 10) + 1]>>

----------------------------------------------------------------------------
(* Validation functions *)

is_valid_flight_id(value) == IsAlnum(value) /\ 2 <= Len(value) /\ Len(value) <= 8

is_valid_airport_code(value) == Len(value) = 3 /\ IsAlpha(value) /\ IsUpper(value)

CharAt(s, p) == IF p \in DOMAIN s THEN s[p] ELSE ""

\* how many characters of the class follow one another from position p on
ClassRun(s, p, class) ==
    SetMin({k \in 0..Len(s) :
              /\ \A j \in 0..(k - 1) : CharAt(s, p + j) \in class
              /\ CharAt(s, p + k) \notin class})

IsLeap(y) == (y % 4 = 0 /\ y % 100 # 0) \/ y % 400 = 0

DaysInMonth(y, m) ==
    IF m = 2 THEN (IF IsLeap(y) THEN 29 ELSE 28)
    ELSE IF m \in {4, 6, 9, 11} THEN 30 ELSE 31

\* datetime.strptime(value, "%Y-%m-%d %H:%M"), ValueError turned into None.
\* strptime matches the whole text against
\*   \d\d\d\d - (1[0-2]|0[1-9]|[1-9]) - (3[01]|[12]\d|0[1-9]|[1-9]| [1-9])
\*   \s+ (2[0-3]|[01]\d|\d) : ([0-5]\d|\d)
\* and datetime() then refuses year 0 and a day the month does not have.
\* The text is read left to right; each step below reads one more piece.
DateTime(Y, M, D, h, mi) ==
    IF Y >= 1 /\ M \in 1..12 /\ D \in 1..DaysInMonth(Y, M) /\ h \in 0..23 /\ mi \in 0..59
    THEN Some([Y |-> Y, M |-> M, D |-> D, h |-> h, mi |-> mi])
    ELSE None

\* the minute and the end of the text
DtMinute(value, Y, M, D, h, iStart, iLen) ==
    IF iLen \in {1, 2} /\ iStart + iLen - 1 = Len(value)
    THEN DateTime(Y, M, D, h, DigitsVal(SubSeq(value, iStart, iStart + iLen - 1)))
    ELSE None

\* the hour and the colon
DtHour(value, Y, M, D, hStart, hLen) ==
    IF hLen \in {1, 2} /\ CharAt(value, hStart + hLen) = ":"
    THEN DtMinute(value, Y, M, D, DigitsVal(SubSeq(value, hStart, hStart + hLen - 1)),
                  hStart + hLen + 1, ClassRun(value, hStart + hLen + 1, DigitChars))
    ELSE None

\* the whitespace between date and time
DtSpace(value, Y, M, D, wStart, wLen) ==
    IF wLen >= 1
    THEN DtHour(value, Y, M, D, wStart + wLen, ClassRun(value, wStart + wLen, DigitChars))
    ELSE None

\* the day: one or two digits, or a space and a digit 1-9
DtDay(value, Y, M, dStart, dSpace, dLen) ==
    IF dSpace
    THEN DtSpace(value, Y, M, DigitVal(value[dStart + 1]), dStart + 2,
                 ClassRun(value, dStart + 2, WhitespaceChars))
    ELSE IF dLen \in {1, 2}
    THEN DtSpace(value, Y, M, DigitsVal(SubSeq(value, dStart, dStart + dLen - 1)),
                 dStart + dLen, ClassRun(value, dStart + dLen, WhitespaceChars))
    ELSE None

\* the month and the second dash
DtMonth(value, Y, mLen) ==
    IF mLen \in {1, 2} /\ CharAt(value, 6 + mLen) = "-"
    THEN DtDay(value, Y, DigitsVal(SubSeq(value, 6, 5 + mLen)), 7 + mLen,
               CharAt(value, 7 + mLen) = " "
                   /\ CharAt(value, 8 + mLen) \in (DigitChars \ {"0"}),
               ClassRun(value, 7 + mLen, DigitChars))
    ELSE None

parse_datetime(value) ==
    IF Len(value) >= 5 /\ AllDigits(SubSeq(value, 1, 4)) /\ value[5] = "-"
    THEN DtMonth(value, DigitsVal(SubSeq(value, 1, 4)), ClassRun(value, 6, DigitChars))
    ELSE None

\* datetime comparison: by (year, month, day, hour, minute)
DtKey(d) == (((d.Y * 13 + d.M) * 32 + d.D) * 24 + d.h) * 60 + d.mi
DtLess(a, b) == DtKey(a) < DtKey(b)
DtLeq(a, b)  == DtKey(a) <= DtKey(b)

\* A float: k is "fin", "inf" or "nan"; a finite value is (-1)^neg * num / 10^scale.
Float(k, neg, num, scale) == [k |-> k, neg |-> neg, num |-> num, scale |-> scale]
NaN == Float("nan", FALSE, 0, 0)

\* digits, single underscores allowed between them
DigitPart(t) ==
    /\ t # <<>>
    /\ \A i \in DOMAIN t : t[i] \in DigitChars \cup {"_"}
    /\ t[1] # "_" /\ t[Len(t)] # "_"
    /\ \A i \in 1..(Len(t) - 1) : ~(t[i] = "_" /\ t[i + 1] = "_")

RECURSIVE DropUnderscores(_)
DropUnderscores(t) ==
    IF t = <<>> THEN <<>>
    ELSE (IF t[1] = "_" THEN <<>> ELSE <<t[1]>>) \o DropUnderscores(Tail(t))

\* float(text): surrounding whitespace dropped, optional sign, then nan, inf,
\* infinity (any case) or a decimal literal with optional fraction and exponent.
\* Each step below splits off one more piece of the text.
FloatValue(neg, num, scale) ==
    IF scale >= 0 THEN Some(Float("fin", neg, num, scale))
    ELSE Some(Float("fin", neg, num * Pow10(0 - scale), 0))

\* integer part ip, fraction fp (hasDot: a "." was there), exponent digits eDig
FloatDigits(neg, hasDot, ip, fp, hasE, eNeg, eDig) ==
    IF /\ IF hasDot
          THEN /\ ip = <<>> \/ DigitPart(ip)
               /\ fp = <<>> \/ DigitPart(fp)
               /\ ~(ip = <<>> /\ fp = <<>>)
          ELSE DigitPart(ip)
       /\ hasE => DigitPart(eDig)
    THEN FloatValue(neg, DigitsVal(DropUnderscores(ip) \o DropUnderscores(fp)),
                    Len(DropUnderscores(fp))
                      - (IF ~hasE THEN 0
                         ELSE IF eNeg THEN 0 - DigitsVal(DropUnderscores(eDig))
                         ELSE DigitsVal(DropUnderscores(eDig))))
    ELSE None

\* the mantissa split at its first "."
FloatMantissa(neg, mant, dots, hasE, eNeg, eDig) ==
    IF dots = {} THEN FloatDigits(neg, FALSE, mant, <<>>, hasE, eNeg, eDig)
    ELSE FloatDigits(neg, TRUE, SubSeq(mant, 1, SetMin(dots) - 1),
                     SubSeq(mant, SetMin(dots) + 1, Len(mant)), hasE, eNeg, eDig)

\* the exponent's optional sign
FloatExponent(neg, mant, hasE, expo) ==
    FloatMantissa(neg, mant, {i \in DOMAIN mant : mant[i] = "."}, hasE,
                  expo # <<>> /\ expo[1] = "-",
                  IF expo # <<>> /\ expo[1] \in {"+", "-"} THEN Tail(expo) ELSE expo)

\* the literal split at its first "e" or "E"
FloatLiteral(neg, body, ePos) ==
    IF ePos = {} THEN FloatExponent(neg, body, FALSE, <<>>)
    ELSE FloatExponent(neg, SubSeq(body, 1, SetMin(ePos) - 1), TRUE,
                       SubSeq(body, SetMin(ePos) + 1, Len(body)))

FloatBody(neg, body, low) ==
    IF low = <<"n","a","n">> THEN Some(Float("nan", neg, 0, 0))
    ELSE IF low \in {<<"i","n","f">>, <<"i","n","f","i","n","i","t","y">>}
    THEN Some(Float("inf", neg, 0, 0))
    ELSE FloatLiteral(neg, body, {i \in DOMAIN body : body[i] \in {"e", "E"}})

FloatSigned(s) ==
    IF s # <<>> /\ s[1] \in {"+", "-"}
    THEN FloatBody(s[1] = "-", Tail(s), Lower(Tail(s)))
    ELSE FloatBody(FALSE, s, Lower(s))

FloatOfStr(text) == FloatSigned(Strip(text))

\* float comparisons; every comparison with a NaN is false
Signed(x) == IF x.neg THEN 0 - x.num ELSE x.num
FloatLess(a, b) ==
    IF a.k = "nan" \/ b.k = "nan" THEN FALSE
    ELSE IF a.k = "inf" THEN a.neg /\ ~(b.k = "inf" /\ b.neg)
    ELSE IF b.k = "inf" THEN ~b.neg
    ELSE Signed(a) * Pow10(b.scale) < Signed(b) * Pow10(a.scale)
FloatGreater(a, b) == FloatLess(b, a)
\* == on floats: false with a NaN, -0.0 == 0.0
FloatEqual(a, b) ==
    IF a.k = "nan" \/ b.k = "nan" THEN FALSE
    ELSE IF a.k = "inf" \/ b.k = "inf" THEN a.k = b.k /\ a.neg = b.neg
    ELSE Signed(a) * Pow10(b.scale) = Signed(b) * Pow10(a.scale)
FloatZero == Float("fin", FALSE, 0, 0)

parse_price(value) == FloatOfStr(value)

----------------------------------------------------------------------------
(* validate_row *)

\* ', '.join(reasons): the reasons with the separator between them
RECURSIVE JoinWith(_, _)
JoinWith(items, sep) ==
    IF Len(items) <= 1 THEN items
    ELSE <<items[1], sep>> \o JoinWith(Tail(items), sep)

\* f"Line {line_no}: {original_line} → {', '.join(reasons)}", as its pieces:
\* "Line ", the number's digits, ": ", the line, the arrow, then the joined reasons.
ErrorMessage(line_no, original_line, reasons) ==
    <<"Line ", IntStr(line_no), ": ", original_line, " U+2192 ">> \o JoinWith(reasons, ", ")

Flight(flight_id, origin, destination, dep_str, arr_str, price) ==
    [flight_id |-> flight_id, origin |-> origin, destination |-> destination,
     departure_datetime |-> dep_str, arrival_datetime |-> arr_str, price |-> price]

\* The checks of a six-field row on its stripped fields and the parsed values,
\* in the order of the code; each appends to reasons.
check_fields(flight_id, origin, destination, dep_dt, arr_dt, price) ==
    (IF flight_id = <<>> THEN <<"missing flight_id field">>
     ELSE IF ~is_valid_flight_id(flight_id)
          THEN (IF Len(flight_id) > 8
                THEN <<"flight_id too long (more than 8 characters)">>
                ELSE <<"invalid flight_id format">>)
     ELSE <<>>)
    \o
    (IF origin = <<>> THEN <<"missing origin field">>
     ELSE IF ~is_valid_airport_code(origin) THEN <<"invalid origin code">>
     ELSE <<>>)
    \o
    (IF destination = <<>> THEN <<"missing destination field">>
     ELSE IF ~is_valid_airport_code(destination) THEN <<"invalid destination code">>
     ELSE <<>>)
    \o
    (IF dep_dt = None /\ arr_dt = None THEN <<"invalid date format">>
     ELSE (IF dep_dt = None THEN <<"invalid departure datetime">> ELSE <<>>)
          \o (IF arr_dt = None THEN <<"invalid arrival datetime">> ELSE <<>>))
    \o
    (IF dep_dt # None /\ arr_dt # None /\ DtLeq(arr_dt[1], dep_dt[1])
     THEN <<"arrival before departure">>
     ELSE <<>>)
    \o
    (IF price = None THEN <<"invalid price value">>
     ELSE IF FloatLess(price[1], FloatZero) THEN <<"negative price value">>
     ELSE IF FloatEqual(price[1], FloatZero) THEN <<"price must be positive">>
     ELSE <<>>)

Result(is_valid, flight, error_msg) ==
    [is_valid |-> is_valid, flight |-> flight, error_msg |-> error_msg]

\* the end of validate_row: the message when there are reasons, else the flight dict
row_result_of(line_no, original_line, reasons, flight_id, origin, destination, dep_str, arr_str, price) ==
    IF reasons # <<>>
    THEN Result(FALSE, None, ErrorMessage(line_no, original_line, reasons))
    ELSE Result(TRUE,
                Some(Flight(flight_id, origin, destination, dep_str, arr_str, price[1])),
                <<>>)

\* validate_row once the six fields are stripped
validate_fields(line_no, original_line, flight_id, origin, destination, dep_str, arr_str, price) ==
    row_result_of(line_no, original_line,
                  check_fields(flight_id, origin, destination,
                               parse_datetime(dep_str), parse_datetime(arr_str), price),
                  flight_id, origin, destination, dep_str, arr_str, price)

\* variant: the count test as "fewer than 6": a longer row is checked on its
\* first six fields
validate_row_fewer(fields, line_no, original_line) ==
    IF Len(fields) < 6
    THEN Result(FALSE, None,
                ErrorMessage(line_no, original_line, <<"missing required fields">>))
    ELSE validate_fields(line_no, original_line,
                         Strip(fields[1]), Strip(fields[2]), Strip(fields[3]),
                         Strip(fields[4]), Strip(fields[5]), parse_price(Strip(fields[6])))

validate_row(fields, line_no, original_line) ==
    IF Len(fields) # 6
    THEN Result(FALSE, None,
                ErrorMessage(line_no, original_line, <<"missing required fields">>))
    ELSE validate_fields(line_no, original_line,
                         Strip(fields[1]), Strip(fields[2]), Strip(fields[3]),
                         Strip(fields[4]), Strip(fields[5]), parse_price(Strip(fields[6])))

----------------------------------------------------------------------------
(* csv.reader on one line (excel dialect: delimiter ",", quotechar "\"",
   doublequote, no escapechar, not strict) *)

\* The reader's automaton: state is START_FIELD, IN_FIELD, IN_QUOTED_FIELD or
\* QUOTE_IN_QUOTED_FIELD, field the field being read, row the fields saved.
RECURSIVE CsvScan(_, _, _, _, _)
CsvScan(line, i, state, field, row) ==
    IF i > Len(line)
    THEN \* end of the line: the field being read is saved
         Append(row, field)
    ELSE LET c == line[i] IN
         CASE state = "START_FIELD" ->
                IF c = "\"" THEN CsvScan(line, i + 1, "IN_QUOTED_FIELD", field, row)
                ELSE IF c = "," THEN CsvScan(line, i + 1, "START_FIELD", <<>>, Append(row, field))
                ELSE CsvScan(line, i + 1, "IN_FIELD", Append(field, c), row)
           [] state = "IN_FIELD" ->
                IF c = "," THEN CsvScan(line, i + 1, "START_FIELD", <<>>, Append(row, field))
                ELSE CsvScan(line, i + 1, "IN_FIELD", Append(field, c), row)
           [] state = "IN_QUOTED_FIELD" ->
                IF c = "\"" THEN CsvScan(line, i + 1, "QUOTE_IN_QUOTED_FIELD", field, row)
                ELSE CsvScan(line, i + 1, "IN_QUOTED_FIELD", Append(field, c), row)
           [] state = "QUOTE_IN_QUOTED_FIELD" ->
                IF c = "\"" THEN CsvScan(line, i + 1, "IN_QUOTED_FIELD", Append(field, c), row)
                ELSE IF c = "," THEN CsvScan(line, i + 1, "START_FIELD", <<>>, Append(row, field))
                ELSE CsvScan(line, i + 1, "IN_FIELD", Append(field, c), row)

\* csv.reader([original_line]): the rows it yields; an empty line yields the empty row
csv_reader(original_line) ==
    IF original_line = <<>> THEN << <<>> >>
    ELSE << CsvScan(original_line, 1, "START_FIELD", <<>>, <<>>) >>

----------------------------------------------------------------------------
(* parse_csv_file, parse_csv_folder, parse_single_csv *)

HEADER_PREFIX == <<"f","l","i","g","h","t","_","i","d",",","o","r","i","g","i","n",",","d","e","s","t","i","n","a","t","i","o","n">>

CSV_SUFFIX == <<".","c","s","v">>

\* f"Line {line_no}: {original_line} → comment line, ignored for data parsing"
CommentMessage(line_no, original_line) ==
    <<"Line ", IntStr(line_no), ": ", original_line,
      " U+2192 comment line, ignored for data parsing">>

\* variant: the header test without "not header_skipped"
is_header_every_time(skipped, stripped) == StartsWith(Lower(stripped), HEADER_PREFIX)

\* not header_skipped and stripped.lower().startswith("flight_id,origin,destination")
is_header(skipped, stripped) ==
    ~skipped /\ StartsWith(Lower(stripped), HEADER_PREFIX)

\* stripped.startswith("#")
is_comment(stripped) == StartsWith(stripped, <<"#">>)

\* variant: the "else:" before err_f.write left out: the message, empty for a
\* valid row, is written for every row
RECURSIVE validate_rows_always_write(_, _, _, _)
validate_rows_always_write(rows, st, line_no, original_line) ==
    IF rows = <<>> THEN st
    ELSE LET res  == validate_row(rows[1], line_no, original_line)
             kept == IF res.is_valid /\ res.flight # None
                     THEN [st EXCEPT !.valid_flights = Append(@, res.flight[1])]
                     ELSE st
             next == [kept EXCEPT !.err_f = Append(@, res.error_msg)]
         IN  validate_rows_always_write(Tail(rows), next, line_no, original_line)

\* for fields in csv.reader([original_line]): validate the row, keep the flight
\* or write the message.  st is [header_skipped, valid_flights, err_f].
RECURSIVE validate_rows(_, _, _, _)
validate_rows(rows, st, line_no, original_line) ==
    IF rows = <<>> THEN st
    ELSE LET res  == validate_row(rows[1], line_no, original_line)
             next == IF res.is_valid /\ res.flight # None
                     THEN [st EXCEPT !.valid_flights = Append(@, res.flight[1])]
                     ELSE [st EXCEPT !.err_f = Append(@, res.error_msg)]
         IN  validate_rows(Tail(rows), next, line_no, original_line)

\* One turn of the loop over enumerate(reader, start=1).
parse_line(st, line_no, original_line) ==
    LET stripped == Strip(original_line) IN
    IF stripped = <<>> THEN st
    ELSE IF is_header(st.header_skipped, stripped) THEN [st EXCEPT !.header_skipped = TRUE]
    ELSE IF is_comment(stripped)
         THEN [st EXCEPT !.err_f = Append(@, CommentMessage(line_no, original_line))]
    ELSE validate_rows(csv_reader(original_line), st, line_no, original_line)

\* if os.path.exists(ERRORS_TXT): os.remove(ERRORS_TXT)
remove_errors(file) == None

\* variant: the log opened with "w": every file of the batch empties it
open_truncating(file) == Some(<<>>)

\* open(ERRORS_TXT, "a"): the file is created when missing, its lines are kept
open_append(file) == IF file = None THEN Some(<<>>) ELSE file

\* os.path.join(folder_path, name)
PathJoin(folder, name) ==
    IF folder # <<>> /\ folder[Len(folder)] = "/" THEN folder \o name
    ELSE folder \o <<"/">> \o name

\* name.lower().endswith(".csv")
is_csv_name(name) == EndsWith(Lower(name), CSV_SUFFIX)

\* the list comprehension over os.listdir(folder_path): the order of the listing is kept
RECURSIVE csv_paths(_, _)
csv_paths(folder, listing) ==
    IF listing = <<>> THEN <<>>
    ELSE (IF is_csv_name(listing[1]) THEN <<PathJoin(folder, listing[1])>> ELSE <<>>)
         \o csv_paths(folder, Tail(listing))

\* list.sort(): ascending by str order
RECURSIVE InsertSorted(_, _)
InsertSorted(sorted, x) ==
    IF sorted = <<>> THEN <<x>>
    ELSE IF StrLess(x, sorted[1]) THEN <<x>> \o sorted
    ELSE <<sorted[1]>> \o InsertSorted(Tail(sorted), x)

\* variant: csv_files.sort() left out: the order of os.listdir
sort_paths_missing(paths) == paths

RECURSIVE sort_paths(_)
sort_paths(paths) ==
    IF paths = <<>> THEN <<>>
    ELSE InsertSorted(sort_paths(SubSeq(paths, 1, Len(paths) - 1)), paths[Len(paths)])

----------------------------------------------------------------------------
(* Inputs of the batch parser *)

MaxLines == 2

FolderPath == <<"d">>

NameA   == <<"a",".","c","s","v">>
NameB   == <<"B",".","C","S","V">>
NameTxt == <<"c",".","t","x","t">>
Names   == {NameA, NameB, NameTxt}

\* commas between the fields: the text of a row
RECURSIVE Flat(_)
Flat(items) == IF items = <<>> THEN <<>> ELSE items[1] \o Flat(Tail(items))

CsvJoin(row) == Flat(JoinWith(row, <<",">>))

T0900 == <<"2","0","2","4","-","0","5","-","0","1"," ","0","9",":","0","0">>
T1000 == <<"2","0","2","4","-","0","5","-","0","1"," ","1","0",":","0","0">>
T1200 == <<"2","0","2","4","-","0","5","-","0","1"," ","1","2",":","0","0">>
TShort == <<"2","0","2","4","-","5","-","1"," ","9",":","0","0">>

AB12 == <<"A","B","1","2">>
XY1  == <<"X","Y","1">>
JFK  == <<"J","F","K">>
LAX  == <<"L","A","X">>

LineBlank   == <<" ", "\t">>
LineHeader  == <<"F","l","i","g","h","t","_","I","D",",","O","r","i","g","i","n",",","D","e","s","t","i","n","a","t","i","o","n",",","d","e","p",",","a","r","r",",","p","r","i","c","e">>
LineComment == <<"#"," ","c">>
LineValid   == CsvJoin(<<AB12, JFK, LAX, T1000, T1200, <<"1","0","0">>>>)
LineQuoted  == CsvJoin(<<<<" ">> \o XY1, LAX, JFK, TShort, T1000, <<"\"","5","0",".","5","\"">>>>)
LineBad     == CsvJoin(<<AB12, <<"j","f","k">>, LAX, T1000, T1200, <<"0">>>>)
LineShort   == CsvJoin(<<AB12, JFK, LAX>>)
LineNaN     == CsvJoin(<<XY1, JFK, LAX, T1000, T1200, <<"n","a","n">>>>)

LineSet == {LineBlank, LineHeader, LineComment, LineValid, LineQuoted, LineBad,
            LineShort, LineNaN}

SeqsUpTo(S, n) == UNION {[1..k -> S] : k \in 0..n}

\* a line left in errors.txt by an earlier run
StaleLine == <<"Line ", <<"9">>, ": ", <<"o","l","d">>, " U+2192 ", "missing required fields">>

\* what the second file may hold
SecondFile == {<<>>, <<LineHeader, LineQuoted>>, <<LineBad>>, <<LineHeader, LineHeader>>,
               <<LineValid, LineComment>>}

Folders ==
    {[n \in Names |-> IF n = NameA THEN a ELSE IF n = NameB THEN b ELSE Some(<<LineValid>>)] :
        a \in {None} \cup {Some(c) : c \in SeqsUpTo(LineSet, MaxLines)},
        b \in {None} \cup {Some(c) : c \in SecondFile}}

Targets == {[kind |-> "dir", path |-> FolderPath],
            [kind |-> "file", path |-> PathJoin(FolderPath, NameA)]}

\* os.listdir(folder_path): the names of the files there, in any order
Listings(folder) ==
    LET present == {n \in Names : folder[n] # None}
    IN  {l \in [1..Cardinality(present) -> present] : Range(l) = present}

\* the file a path names
FileAt(folder, path) ==
    LET hit == {n \in Names : PathJoin(FolderPath, n) = path}
    IN  IF hit = {} THEN None ELSE folder[CHOOSE n \in hit : TRUE]

----------------------------------------------------------------------------
(* The batch parser, one loop turn at a time *)

IdleRow   == arg_fields = <<>> /\ arg_line_no = 0 /\ arg_line = <<>> /\ row_result = <<>>
IdleParse == /\ fs = [n \in Names |-> None] /\ errors_txt = None
             /\ target = [kind |-> "none", path |-> <<>>]
             /\ csv_files = <<>> /\ file_i = 0 /\ line_i = 0 /\ header_skipped = FALSE
             /\ valid_flights = <<>> /\ all_flights = <<>>
IdleMatch == m_flight = <<>> /\ m_query = <<>> /\ m_result = "none"
IdleQuery == flights = <<>> /\ queries = <<>> /\ responses = <<>>

Init ==
    /\ pc = "main"
    /\ fs \in Folders
    /\ errors_txt \in {None, Some(<<StaleLine>>)}
    /\ target \in Targets
    /\ csv_files = <<>> /\ file_i = 0 /\ line_i = 0 /\ header_skipped = FALSE
    /\ valid_flights = <<>> /\ all_flights = <<>>
    /\ IdleRow /\ IdleMatch /\ IdleQuery

\* parse_single_csv up to the call of parse_csv_file
parse_single_csv ==
    /\ pc = "main" /\ target.kind = "file"
    /\ errors_txt' = remove_errors(errors_txt)
    /\ csv_files' = <<target.path>>
    /\ file_i' = 0
    /\ pc' = "files"
    /\ UNCHANGED <<fs, target, line_i, header_skipped, valid_flights, all_flights>>
    /\ UNCHANGED <<row_vars, match_vars, query_vars>>

\* parse_csv_folder up to its loop over csv_files
parse_csv_folder ==
    /\ pc = "main" /\ target.kind = "dir"
    /\ errors_txt' = remove_errors(errors_txt)
    /\ \E listing \in Listings(fs) :
          csv_files' = sort_paths(csv_paths(target.path, listing))
    /\ file_i' = 0
    /\ all_flights' = <<>>
    /\ pc' = "files"
    /\ UNCHANGED <<fs, target, line_i, header_skipped, valid_flights>>
    /\ UNCHANGED <<row_vars, match_vars, query_vars>>

\* parse_csv_file: both files opened, the lines read, header_skipped = False
open_file ==
    /\ pc = "files" /\ file_i < Len(csv_files)
    /\ FileAt(fs, csv_files[file_i + 1]) # None
    /\ file_i' = file_i + 1
    /\ errors_txt' = open_append(errors_txt)
    /\ line_i' = 0
    /\ header_skipped' = FALSE
    /\ valid_flights' = <<>>
    /\ pc' = "lines"
    /\ UNCHANGED <<fs, target, csv_files, all_flights>>
    /\ UNCHANGED <<row_vars, match_vars, query_vars>>

\* open(path) raises FileNotFoundError, which main reports; nothing is saved
file_not_found ==
    /\ pc = "files" /\ file_i < Len(csv_files)
    /\ FileAt(fs, csv_files[file_i + 1]) = None
    /\ pc' = "failed"
    /\ UNCHANGED parse_vars
    /\ UNCHANGED <<row_vars, match_vars, query_vars>>

CurrentLines == FileAt(fs, csv_files[file_i])[1]

\* one turn of the loop over the lines
next_line ==
    /\ pc = "lines" /\ line_i < Len(CurrentLines)
    /\ \E st \in {parse_line([header_skipped |-> header_skipped,
                              valid_flights |-> valid_flights,
                              err_f |-> errors_txt[1]],
                             line_i + 1, CurrentLines[line_i + 1])} :
          /\ header_skipped' = st.header_skipped
          /\ valid_flights' = st.valid_flights
          /\ errors_txt' = Some(st.err_f)
    /\ line_i' = line_i + 1
    /\ UNCHANGED <<pc, fs, target, csv_files, file_i, all_flights>>
    /\ UNCHANGED <<row_vars, match_vars, query_vars>>

\* parse_csv_file returns valid_flights: all_flights.extend(flights) in the
\* folder's loop, the result itself for a single file
end_of_file ==
    /\ pc = "lines" /\ line_i = Len(CurrentLines)
    /\ all_flights' = IF target.kind = "dir" THEN all_flights \o valid_flights
                      ELSE valid_flights
    /\ pc' = "files"
    /\ UNCHANGED <<fs, errors_txt, target, csv_files, file_i, line_i, header_skipped,
                   valid_flights>>
    /\ UNCHANGED <<row_vars, match_vars, query_vars>>

\* the loop over csv_files is over: the flights are returned to main
return_flights ==
    /\ pc = "files" /\ file_i = Len(csv_files)
    /\ pc' = "done"
    /\ UNCHANGED parse_vars
    /\ UNCHANGED <<row_vars, match_vars, query_vars>>

Next ==
    \/ parse_single_csv
    \/ parse_csv_folder
    \/ open_file
    \/ file_not_found
    \/ next_line
    \/ end_of_file
    \/ return_flights

Spec == Init /\ [][Next]_vars

----------------------------------------------------------------------------
(* What the specification says of a batch, stated on the input files *)

\* the six constraints of a Flight Record
SixConstraints(flight_id, origin, destination, dep_dt, arr_dt, price) ==
    /\ Len(flight_id) \in 2..8
    /\ \A i \in DOMAIN flight_id : flight_id[i] \in LetterChars \cup DigitChars
    /\ Len(origin) = 3 /\ \A i \in DOMAIN origin : origin[i] \in UpperChars
    /\ Len(destination) = 3 /\ \A i \in DOMAIN destination : destination[i] \in UpperChars
    /\ dep_dt # None
    /\ arr_dt # None
    /\ dep_dt # None /\ arr_dt # None => DtLess(dep_dt[1], arr_dt[1])
    /\ price.k \in {"fin", "inf"} /\ FloatLess(FloatZero, price)

IsFlightRecord(f) ==
    SixConstraints(f.flight_id, f.origin, f.destination,
                   parse_datetime(f.departure_datetime),
                   parse_datetime(f.arrival_datetime), f.price)

IsBlankLine(line) == \A i \in DOMAIN line : line[i] \in WhitespaceChars

HasHeaderPrefix(line) == StartsWith(Lower(Strip(line)), HEADER_PREFIX)

\* the line consumed as the header: the first non-blank line with the prefix (0: none)
HeaderLine(lines) ==
    LET hits == {i \in DOMAIN lines : ~IsBlankLine(lines[i]) /\ HasHeaderPrefix(lines[i])}
    IN  IF hits = {} THEN 0 ELSE SetMin(hits)

LineKind(lines, i) ==
    IF IsBlankLine(lines[i]) THEN "blank"
    ELSE IF i = HeaderLine(lines) THEN "header"
    ELSE IF Strip(lines[i])[1] = "#" THEN "comment"
    ELSE "data"

\* the Row Validator's verdict on line i
RowOf(lines, i) == validate_row(csv_reader(lines[i])[1], i, lines[i])

\* the valid records of the first n lines, in line order
RECURSIVE FileRecords(_, _)
FileRecords(lines, n) ==
    IF n = 0 THEN <<>>
    ELSE FileRecords(lines, n - 1)
         \o (IF LineKind(lines, n) = "data" /\ RowOf(lines, n).is_valid
             THEN RowOf(lines, n).flight ELSE <<>>)

\* (line number, text) of the invalid and the comment lines among the first n lines
RECURSIVE FileDiagnostics(_, _)
FileDiagnostics(lines, n) ==
    IF n = 0 THEN <<>>
    ELSE FileDiagnostics(lines, n - 1)
         \o (IF \/ LineKind(lines, n) = "comment"
                \/ LineKind(lines, n) = "data" /\ ~RowOf(lines, n).is_valid
             THEN << <<IntStr(n), lines[n]>> >> ELSE <<>>)

\* the files of the batch: the folder's csv paths in ascending order, or the one file
IsAscending(paths) == \A i \in 1..(Len(paths) - 1) : StrLess(paths[i], paths[i + 1])

BatchPaths ==
    IF target.kind = "dir"
    THEN LET csv == {PathJoin(FolderPath, n) : n \in {m \in Names : fs[m] # None /\ is_csv_name(m)}}
         IN  CHOOSE l \in [1..Cardinality(csv) -> csv] : Range(l) = csv /\ IsAscending(l)
    ELSE <<target.path>>

\* how many files of the batch are parsed to their end
FilesDone == IF pc = "lines" THEN file_i - 1 ELSE file_i

LinesAt(path) == FileAt(fs, path)[1]

RECURSIVE RecordsOfFiles(_, _)
RecordsOfFiles(paths, n) ==
    IF n = 0 THEN <<>>
    ELSE RecordsOfFiles(paths, n - 1) \o FileRecords(LinesAt(paths[n]), Len(LinesAt(paths[n])))

RECURSIVE DiagnosticsOfFiles(_, _)
DiagnosticsOfFiles(paths, n) ==
    IF n = 0 THEN <<>>
    ELSE DiagnosticsOfFiles(paths, n - 1)
         \o FileDiagnostics(LinesAt(paths[n]), Len(LinesAt(paths[n])))

\* the lines of errors.txt, each as (line number, text)
LogLines == IF errors_txt = None THEN <<>> ELSE errors_txt[1]
LogEntries == [i \in DOMAIN LogLines |-> <<LogLines[i][2], LogLines[i][4]>>]

\* C1: every Flight Record returned by the parse satisfies the six constraints.
C1_RecordsSatisfyConstraints ==
    /\ \A i \in DOMAIN valid_flights : IsFlightRecord(valid_flights[i])
    /\ \A i \in DOMAIN all_flights : IsFlightRecord(all_flights[i])

\* C7: from the start of the batch on, errors.txt holds exactly one line for each
\* invalid or comment line read so far, in the order of the sorted paths and of
\* the lines; nothing of an earlier run is left and nothing written is lost.
C7_LogOfTheBatch ==
    pc # "main" =>
        LogEntries = DiagnosticsOfFiles(BatchPaths, FilesDone)
                     \o (IF pc = "lines" THEN FileDiagnostics(CurrentLines, line_i) ELSE <<>>)

C7_Witness ==
    /\ pc = "done" /\ target.kind = "dir" /\ Len(csv_files) = 2
    /\ FileDiagnostics(LinesAt(csv_files[1]), Len(LinesAt(csv_files[1]))) # <<>>
    /\ FileDiagnostics(LinesAt(csv_files[2]), Len(LinesAt(csv_files[2]))) # <<>>
    /\ Len(LogLines) >= 3

\* C8: a folder's files are parsed one after another in ascending path order and
\* the flights returned are the concatenation of each file's valid records.
C8_FolderConcatenation ==
    (target.kind = "dir" /\ pc # "main") =>
        /\ csv_files = BatchPaths
        /\ file_i \in 0..Len(csv_files)
        /\ all_flights = RecordsOfFiles(BatchPaths, FilesDone)
        /\ pc = "lines" => valid_flights = FileRecords(CurrentLines, line_i)
        /\ pc = "done" => FilesDone = Len(BatchPaths)

C8_Witness ==
    /\ pc = "done" /\ target.kind = "dir" /\ Len(csv_files) = 2
    /\ Len(all_flights) = 3
    /\ all_flights[1] # all_flights[2] /\ all_flights[2] # all_flights[3]
    /\ FileRecords(LinesAt(csv_files[1]), Len(LinesAt(csv_files[1]))) # <<>>
    /\ FileRecords(LinesAt(csv_files[2]), Len(LinesAt(csv_files[2]))) # <<>>

\* a step over a line with the header prefix: the consumed header leaves records
\* and log alone, any other such line is validated and its diagnostic is logged
C9_HeaderStep ==
    (pc = "lines" /\ line_i' = line_i + 1 /\ HasHeaderPrefix(CurrentLines[line_i + 1])) =>
        IF line_i + 1 = HeaderLine(CurrentLines)
        THEN valid_flights' = valid_flights /\ errors_txt' = errors_txt
        ELSE /\ valid_flights' = valid_flights
             /\ errors_txt'[1] = Append(errors_txt[1], RowOf(CurrentLines, line_i + 1).error_msg)
             /\ RowOf(CurrentLines, line_i + 1).error_msg # <<>>

\* C9: in a file only the first non-blank line with the header prefix is skipped
\* (no record, no diagnostic); a later line with the prefix is validated as data
\* and logged; each file starts with no header consumed.
C9_OneHeaderPerFile ==
    /\ [](pc = "lines" => (header_skipped <=> HeaderLine(CurrentLines) \in 1..line_i))
    /\ [][C9_HeaderStep]_vars

C9_Witness ==
    /\ pc = "lines" /\ file_i = 2 /\ line_i = 2
    /\ HeaderLine(LinesAt(csv_files[1])) # 0
    /\ HeaderLine(CurrentLines) = 1
    /\ HasHeaderPrefix(CurrentLines[2])
    /\ LogLines # <<>> /\ LogLines[Len(LogLines)][4] = CurrentLines[2]

\* a step over one line, by the line's kind: how many records and diagnostics it adds
C10_LineStep ==
    (pc = "lines" /\ line_i' = line_i + 1) =>
        LET kind == LineKind(CurrentLines, line_i + 1)
            recs == Len(valid_flights') - Len(valid_flights)
            logs == Len(errors_txt'[1]) - Len(errors_txt[1])
        IN  /\ kind \in {"blank", "header"} => recs = 0 /\ logs = 0
            /\ kind = "comment" => recs = 0 /\ logs = 1
            /\ kind = "data" => (recs = 1 /\ logs = 0) \/ (recs = 0 /\ logs = 1)

SilentLines(lines, n) ==
    Cardinality({i \in 1..n : LineKind(lines, i) \in {"blank", "header"}})

\* C10: every line has exactly one outcome: nothing for a blank line and for the
\* consumed header, one diagnostic for a comment, one record or else one
\* diagnostic for any other line; so records + diagnostics = lines - blank - header.
C10_OneOutcomePerLine ==
    /\ [](pc = "lines" /\ file_i = 1 =>
            Len(valid_flights) + Len(LogLines) = line_i - SilentLines(CurrentLines, line_i))
    /\ [][C10_LineStep]_vars

C10_Witness ==
    /\ pc = "files" /\ file_i = 1
    /\ Len(LinesAt(csv_files[1])) = 2
    /\ SilentLines(LinesAt(csv_files[1]), 2) = 1
    /\ Len(valid_flights) = 1 /\ Len(LogLines) = 0

----------------------------------------------------------------------------
(* validate_row on its own: the rows it is given *)

FlightIdChoices ==
    {AB12, <<" ">> \o XY1 \o <<" ">>, <<"A">>, <<"A","B","C","D","E","F","G","H","I">>,
     <<"A","B","-","1">>, <<>>}
OriginChoices == {JFK, <<"j","f","k">>, <<"J","F">>, <<"A","U+4E2D","U+4E2D">>, <<" ">>}
DestinationChoices == {LAX, <<"l","a","x">>, <<>>}
DepartureChoices == {T1000, TShort, <<"b","a","d">>}
ArrivalChoices == {T1200, T1000, T0900, <<"x">>}
PriceChoices ==
    {<<"1","0","0">>, <<"5","0",".","5">>, <<"0">>, <<"-","0">>, <<"-","5">>,
     <<"a","b","c">>, <<"n","a","n">>, <<"i","n","f">>}

SixFieldRows ==
    {<<a, b, c, d, e, f>> : a \in FlightIdChoices, b \in OriginChoices,
                            c \in DestinationChoices, d \in DepartureChoices,
                            e \in ArrivalChoices, f \in PriceChoices}

\* rows with fewer or more than six fields
OtherRows ==
    LET some == {<<a, b, LAX, T1000, e, f>> :
                    a \in {AB12, <<"A">>}, b \in {JFK, <<"j","f","k">>},
                    e \in {T1200, T0900}, f \in {<<"1","0","0">>, <<"0">>}}
    IN  {<<>>, <<AB12>>}
        \cup {SubSeq(r, 1, 5) : r \in some}
        \cup {r \o <<x>> : r \in some, x \in {<<>>, <<"x">>}}

InitRow ==
    /\ pc = "row"
    /\ arg_fields \in SixFieldRows \cup OtherRows
    /\ arg_line_no \in {1, 12}
    /\ arg_line = CsvJoin(arg_fields)
    /\ row_result = <<>>
    /\ IdleParse /\ IdleMatch /\ IdleQuery

call_validate_row ==
    /\ pc = "row"
    /\ row_result' = Some(validate_row(arg_fields, arg_line_no, arg_line))
    /\ pc' = "row_done"
    /\ UNCHANGED <<arg_fields, arg_line_no, arg_line>>
    /\ UNCHANGED <<parse_vars, match_vars, query_vars>>

NextRow == call_validate_row

SpecRow == InitRow /\ [][NextRow]_vars

\* the reasons of a message: the pieces after the arrow, without the separators
ReasonsOf(msg) == [i \in 1..((Len(msg) - 4) \div 2) |-> msg[4 + 2 * i]]

\* the rule a reason reports
RuleOf(reason) ==
    IF reason \in {"missing flight_id field", "flight_id too long (more than 8 characters)",
                   "invalid flight_id format"} THEN "flight_id"
    ELSE IF reason \in {"missing origin field", "invalid origin code"} THEN "origin"
    ELSE IF reason \in {"missing destination field", "invalid destination code"}
         THEN "destination"
    ELSE IF reason \in {"invalid date format", "invalid departure datetime",
                        "invalid arrival datetime"} THEN "timestamps"
    ELSE IF reason = "arrival before departure" THEN "chronology"
    ELSE IF reason \in {"invalid price value", "negative price value",
                        "price must be positive"} THEN "price"
    ELSE "none"

\* the rules of the data model a six-field row violates, in the evaluation order
ViolatedRules(flight_id, origin, destination, dep_dt, arr_dt, price) ==
    (IF Len(flight_id) \in 2..8
        /\ \A i \in DOMAIN flight_id : flight_id[i] \in LetterChars \cup DigitChars
     THEN <<>> ELSE <<"flight_id">>)
    \o (IF Len(origin) = 3 /\ \A i \in DOMAIN origin : origin[i] \in UpperChars
        THEN <<>> ELSE <<"origin">>)
    \o (IF Len(destination) = 3 /\ \A i \in DOMAIN destination : destination[i] \in UpperChars
        THEN <<>> ELSE <<"destination">>)
    \o (IF dep_dt # None /\ arr_dt # None THEN <<>> ELSE <<"timestamps">>)
    \o (IF dep_dt # None /\ arr_dt # None /\ ~DtLess(dep_dt[1], arr_dt[1])
        THEN <<"chronology">> ELSE <<>>)
    \o (IF price # None /\ price[1].k \in {"fin", "inf"} /\ FloatLess(FloatZero, price[1])
        THEN <<>> ELSE <<"price">>)

RowViolations(fields) ==
    ViolatedRules(Strip(fields[1]), Strip(fields[2]), Strip(fields[3]),
                  parse_datetime(Strip(fields[4])), parse_datetime(Strip(fields[5])),
                  parse_price(Strip(fields[6])))

ReportedRules(msg) == [i \in DOMAIN ReasonsOf(msg) |-> RuleOf(ReasonsOf(msg)[i])]

\* C2: the diagnostic of a six-field row lists every rule the row violates, each
\* once, no other, in the order flight_id, origin, destination, timestamps,
\* chronology, price; a row violating none has no diagnostic.
C2_AllViolationsReported ==
    (pc = "row_done" /\ Len(arg_fields) = 6) =>
        /\ ReportedRules(row_result[1].error_msg) = RowViolations(arg_fields)
        /\ row_result[1].is_valid <=> RowViolations(arg_fields) = <<>>

\* C3: a row whose field count is not 6 is invalid with the single reason
\* "missing required fields", whatever its fields hold, and gives no flight.
C3_WrongFieldCount ==
    (pc = "row_done" /\ Len(arg_fields) # 6) =>
        /\ ~row_result[1].is_valid
        /\ row_result[1].flight = None
        /\ row_result[1].error_msg =
             <<"Line ", IntStr(arg_line_no), ": ", arg_line, " U+2192 ",
               "missing required fields">>

C3_Witness ==
    /\ pc = "row_done" /\ Len(arg_fields) = 7
    /\ RowViolations(SubSeq(arg_fields, 1, 6)) = <<>>
    /\ ReasonsOf(row_result[1].error_msg) = <<"missing required fields">>

----------------------------------------------------------------------------
(* Query handling *)

\* A value of the query JSON: a str (s), an int (n), null, or a float (x).
JStr(s)   == [t |-> "str",   s |-> s,    n |-> 0, x |-> NaN]
JInt(n)   == [t |-> "int",   s |-> <<>>, n |-> n, x |-> NaN]
JNull     == [t |-> "null",  s |-> <<>>, n |-> 0, x |-> NaN]
JFloat(x) == [t |-> "float", s |-> <<>>, n |-> 0, x |-> x]

\* str(v); a float here is nan or inf
Str(v) ==
    IF v.t = "str" THEN v.s
    ELSE IF v.t = "int" THEN (IF v.n < 0 THEN <<"-">> \o IntStr(0 - v.n) ELSE IntStr(v.n))
    ELSE IF v.t = "null" THEN <<"N","o","n","e">>
    ELSE (IF v.x.neg THEN <<"-">> ELSE <<>>)
         \o (IF v.x.k = "nan" THEN <<"n","a","n">> ELSE <<"i","n","f">>)

\* float(v): the value x, or the error raised
FloatResult(error, x) == [error |-> error, x |-> x]

float_of_str(parsed) ==
    IF parsed = None THEN FloatResult("ValueError", NaN) ELSE FloatResult("none", parsed[1])

float_of(v) ==
    IF v.t = "str" THEN float_of_str(FloatOfStr(v.s))
    ELSE IF v.t = "int"
    THEN FloatResult("none", Float("fin", v.n < 0, IF v.n < 0 THEN 0 - v.n ELSE v.n, 0))
    ELSE IF v.t = "float" THEN FloatResult("none", v.x)
    ELSE FloatResult("TypeError", NaN)

ExactKeys == <<"flight_id", "origin", "destination">>

\* the loop over the exact-match keys: is some present key different?
exact_mismatch(flight, query) ==
    \E i \in DOMAIN ExactKeys :
        /\ ExactKeys[i] \in DOMAIN query
        /\ flight[ExactKeys[i]] # Str(query[ExactKeys[i]])

\* the price filter; q_price is float_of(query["price"])
price_filter(flight, q_price) ==
    IF q_price.error \in {"TypeError", "ValueError"} THEN "False"
    ELSE IF FloatGreater(flight.price, q_price.x) THEN "False"
    ELSE "True"

after_arrival(flight, query) ==
    IF "price" \in DOMAIN query THEN price_filter(flight, float_of(query["price"]))
    ELSE "True"

\* the arrival filter; strptime raises TypeError for a value that is no str
arrival_filter(flight, query, q, f_arr) ==
    IF q.t # "str" THEN "TypeError"
    ELSE IF parse_datetime(q.s) = None THEN "False"
    ELSE IF f_arr = None \/ DtLess(parse_datetime(q.s)[1], f_arr[1]) THEN "False"
    ELSE after_arrival(flight, query)

after_departure(flight, query) ==
    IF "arrival_datetime" \in DOMAIN query
    THEN arrival_filter(flight, query, query["arrival_datetime"],
                        parse_datetime(flight.arrival_datetime))
    ELSE after_arrival(flight, query)

\* the departure filter
departure_filter(flight, query, q, f_dep) ==
    IF q.t # "str" THEN "TypeError"
    ELSE IF parse_datetime(q.s) = None THEN "False"
    ELSE IF f_dep = None \/ DtLess(f_dep[1], parse_datetime(q.s)[1]) THEN "False"
    ELSE after_departure(flight, query)

\* "True", "False", or the exception that leaves the function
flight_matches_query(flight, query) ==
    IF exact_mismatch(flight, query) THEN "False"
    ELSE IF "departure_datetime" \in DOMAIN query
    THEN departure_filter(flight, query, query["departure_datetime"],
                          parse_datetime(flight.departure_datetime))
    ELSE after_departure(flight, query)

\* [flight for flight in flights if flight_matches_query(flight, q)]
RECURSIVE matching(_, _)
matching(fl, q) ==
    IF fl = <<>> THEN <<>>
    ELSE (IF flight_matches_query(fl[1], q) = "True" THEN <<fl[1]>> ELSE <<>>)
         \o matching(Tail(fl), q)

raises(fl, q) == \E i \in DOMAIN fl : flight_matches_query(fl[i], q) = "TypeError"

----------------------------------------------------------------------------
(* Inputs of the queries *)

MaxQueries == 2

FlightOf(row) == validate_row(row, 1, CsvJoin(row)).flight[1]

Flight10  == FlightOf(<<AB12, JFK, LAX, T1000, T1200, <<"1","0">>>>)
Flight50  == FlightOf(<<XY1, LAX, JFK, T0900, T1000, <<"5","0">>>>)
Flight51  == FlightOf(<<<<"7","7">>, JFK, LAX, TShort, T1200, <<"5","1">>>>)
FlightNaN == FlightOf(<<XY1, JFK, LAX, T1000, T1200, <<"n","a","n">>>>)

NotADate == <<"n","o","t","-","a","-","d","a","t","e">>

Absent == {<<>>}
Given(values) == {<<v>> : v \in values}

\* a query: the keys present, each with its value
QueryOf(fid, org, dep, arr, prc, other) ==
    LET opt == [k \in {"flight_id", "origin", "departure_datetime", "arrival_datetime",
                       "price", "airline"} |->
                  IF k = "flight_id" THEN fid ELSE IF k = "origin" THEN org
                  ELSE IF k = "departure_datetime" THEN dep
                  ELSE IF k = "arrival_datetime" THEN arr
                  ELSE IF k = "price" THEN prc ELSE other]
    IN  [k \in {j \in DOMAIN opt : opt[j] # <<>>} |-> opt[k][1]]

MatchQueries ==
    {QueryOf(fid, org, dep, arr, prc, other) :
        fid \in Absent \cup Given({JStr(AB12), JInt(77)}),
        org \in Absent \cup Given({JStr(JFK)}),
        dep \in Absent \cup Given({JStr(T0900), JStr(T1000), JStr(NotADate), JInt(2024), JNull}),
        arr \in Absent \cup Given({JStr(T1000), JStr(T1200), JStr(<<>>), JNull}),
        prc \in Absent \cup Given({JInt(50), JStr(<<"5","0",".","5">>), JStr(<<"a","b","c">>),
                                   JNull, JFloat(NaN), JStr(<<"n","a","n">>)}),
        other \in Absent \cup Given({JStr(<<"x">>)})}

InitMatch ==
    /\ pc = "match"
    /\ m_flight \in {Some(f) : f \in {Flight10, Flight50, Flight51, FlightNaN}}
    /\ m_query \in {Some(q) : q \in MatchQueries}
    /\ m_result = "none"
    /\ IdleRow /\ IdleParse /\ IdleQuery

call_flight_matches_query ==
    /\ pc = "match"
    /\ m_result' = flight_matches_query(m_flight[1], m_query[1])
    /\ pc' = "match_done"
    /\ UNCHANGED <<m_flight, m_query>>
    /\ UNCHANGED <<row_vars, parse_vars, query_vars>>

NextMatch == call_flight_matches_query

SpecMatch == InitMatch /\ [][NextMatch]_vars

RunQueries ==
    {QueryOf(<<>>, <<>>, <<>>, <<>>, Some(JInt(50)), <<>>),
     QueryOf(<<>>, <<>>, Some(JStr(NotADate)), <<>>, <<>>, <<>>),
     QueryOf(<<>>, <<>>, Some(JInt(2024)), <<>>, <<>>, <<>>),
     QueryOf(<<>>, Some(JStr(JFK)), <<>>, Some(JStr(T1200)), <<>>, Some(JStr(<<"x">>))),
     QueryOf(<<>>, <<>>, <<>>, <<>>, <<>>, <<>>),
     QueryOf(Some(JInt(77)), <<>>, <<>>, Some(JNull), <<>>, <<>>)}

Databases == {<<>>, <<Flight10, Flight50, Flight51>>, <<Flight51, Flight10>>}

InitQuery ==
    /\ pc = "queries"
    /\ flights \in Databases
    /\ queries \in SeqsUpTo(RunQueries, MaxQueries)
    /\ responses = <<>>
    /\ IdleRow /\ IdleParse /\ IdleMatch

\* one turn of the loop of run_queries_on_db
run_query ==
    /\ pc = "queries" /\ Len(responses) < Len(queries)
    /\ ~raises(flights, queries[Len(responses) + 1])
    /\ responses' = Append(responses,
                           [query |-> queries[Len(responses) + 1],
                            matches |-> matching(flights, queries[Len(responses) + 1])])
    /\ UNCHANGED <<pc, flights, queries>>
    /\ UNCHANGED <<row_vars, parse_vars, match_vars>>

\* flight_matches_query raises: the TypeError leaves run_queries_on_db, and main,
\* which does not catch it; no response is returned
query_raises ==
    /\ pc = "queries" /\ Len(responses) < Len(queries)
    /\ raises(flights, queries[Len(responses) + 1])
    /\ pc' = "raised"
    /\ UNCHANGED <<flights, queries, responses>>
    /\ UNCHANGED <<row_vars, parse_vars, match_vars>>

return_responses ==
    /\ pc = "queries" /\ Len(responses) = Len(queries)
    /\ pc' = "returned"
    /\ UNCHANGED <<flights, queries, responses>>
    /\ UNCHANGED <<row_vars, parse_vars, match_vars>>

NextQuery == run_query \/ query_raises \/ return_responses

SpecQuery == InitQuery /\ [][NextQuery]_vars

----------------------------------------------------------------------------
(* What the specification says of the queries *)

\* a filter value that is no timestamp / no number
NoTimestamp(v) == v.t # "str" \/ parse_datetime(v.s) = None
NoNumber(v) == v.t = "null" \/ (v.t = "str" /\ FloatOfStr(v.s) = None)

HasUnparsable(q) ==
    \/ "departure_datetime" \in DOMAIN q /\ NoTimestamp(q["departure_datetime"])
    \/ "arrival_datetime" \in DOMAIN q /\ NoTimestamp(q["arrival_datetime"])
    \/ "price" \in DOMAIN q /\ NoNumber(q["price"])

AllParse(q) == ~HasUnparsable(q)

\* C4: a query with an unparsable departure_datetime, arrival_datetime or price
\* value matches no record, and flight_matches_query does not raise.
C4_UnparsableMatchesNothing ==
    (pc = "match_done" /\ HasUnparsable(m_query[1])) => m_result = "False"

\* <= on floats
FloatLeq(a, b) == FloatLess(a, b) \/ FloatEqual(a, b)

\* every present recognized key passes
Satisfies(f, q) ==
    /\ \A k \in {"flight_id", "origin", "destination"} \cap DOMAIN q : f[k] = Str(q[k])
    /\ "departure_datetime" \in DOMAIN q =>
          DtLeq(parse_datetime(q["departure_datetime"].s)[1],
                parse_datetime(f.departure_datetime)[1])
    /\ "arrival_datetime" \in DOMAIN q =>
          DtLeq(parse_datetime(f.arrival_datetime)[1],
                parse_datetime(q["arrival_datetime"].s)[1])
    /\ "price" \in DOMAIN q => FloatLeq(f.price, float_of(q["price"]).x)

\* C5: for a valid record and a query whose filter values all parse, the result
\* is true exactly when every present recognized key passes (bounds inclusive).
C5_MatchesIffAllKeysPass ==
    (pc = "match_done" /\ IsFlightRecord(m_flight[1]) /\ AllParse(m_query[1])) =>
        /\ m_result \in {"True", "False"}
        /\ m_result = "True" <=> Satisfies(m_flight[1], m_query[1])

RECURSIVE Subsequence(_, _)
Subsequence(fl, q) ==
    IF fl = <<>> THEN <<>>
    ELSE (IF flight_matches_query(fl[1], q) = "True" THEN <<fl[1]>> ELSE <<>>)
         \o Subsequence(Tail(fl), q)

\* C6: run_queries_on_db ends with one response per query, in the order of the
\* queries, each with its query and the matching records in their order.
C6_OneResponsePerQuery ==
    /\ Len(responses) <= Len(queries)
    /\ \A i \in DOMAIN responses :
          /\ responses[i].query = queries[i]
          /\ responses[i].matches = Subsequence(flights, queries[i])
    /\ pc \in {"returned", "raised"} => Len(responses) = Len(queries)

====
